---- MODULE Spec2Model ----
(***************************************************************************)
(* The in-memory migration index (type Migrations) of nokia/migrate's      *)
(* source package: version -> direction -> *Migration plus the sorted      *)
(* version slice, with Append, navigation, status bookkeeping and the      *)
(* summary printer; and the two source drivers built on it, iofs and       *)
(* google_cloud_storage: discovery, forwarded navigation and reads.        *)
(***************************************************************************)
EXTENDS Integers, Sequences, FiniteSets, TLC

VARIABLES index, migrations, ret, panicked, calls,
          store, registry, kind, drv

\* the driver's side: the names in the backing store, the keys of
\* MgrFunctions, which driver it is and whether it was opened
dvars == <<store, registry, kind, drv>>

vars == <<index, migrations, ret, panicked, calls, store, registry, kind, drv>>

\* ---------------------------------------------------------------- bounds
\* versions are the uints 0..MaxVersion
MaxVersion == 2
\* a run makes at most MaxCalls calls on the index
MaxCalls == 4

Versions == 0..MaxVersion

\* ------------------------------------------------------------ constants
Down == "down"
Up == "up"
Directions == {Down, Up}

Skipped == "skipped"
Pending == "pending"
Done == "done"
Failed == "failed"
Statuses == {Skipped, Pending, Done, Failed}

\* error texts handed to UpdateStatus
Errors == {"", "boom"}
\* raw locations and identifiers of discovered migrations
Raws == {"a.sql", "b.sql"}
Identifiers == {"init"}

\* the nil *Migration
Nil == [nil |-> TRUE]

\* type Migration; discovery creates records pending, with no error
Migration == [Version : Versions, Identifier : Identifiers, Direction : Directions,
              Raw : Raws, Status : {Pending}, Error : {""}]

\* ------------------------------------------------------ sorted sequences
RECURSIVE SortAsc(_)
SortAsc(S) ==
    IF S = {} THEN <<>>
    ELSE LET m == CHOOSE x \in S : \A y \in S : x <= y
         IN  <<m>> \o SortAsc(S \ {m})

RECURSIVE SortDesc(_)
SortDesc(S) ==
    IF S = {} THEN <<>>
    ELSE LET m == CHOOSE x \in S : \A y \in S : x >= y
         IN  <<m>> \o SortDesc(S \ {m})

\* buildIndex with the comparator reversed
buildIndexReversed(ms) == SortDesc(DOMAIN ms)

\* buildIndex: the keys of the map, sorted ascending
buildIndex(ms) == SortAsc(DOMAIN ms)

\* sort.Search(n, f): the smallest i in [0, n) with f(i), else n (bisection);
\* s is 1-based here, so s[h + 1] is Go's s[h]
RECURSIVE SearchLoop(_, _, _, _)
SearchLoop(s, x, i, j) ==
    IF i < j
    THEN LET h == (i + j) \div 2
         IN  IF ~(s[h + 1] >= x) THEN SearchLoop(s, x, h + 1, j)
                                  ELSE SearchLoop(s, x, i, h)
    ELSE i

\* uintSlice.Search
Search(s, x) == SearchLoop(s, x, 0, Len(s))

\* findPos that takes the lower bound for the position (no equality test)
findPosNearest(ix, version) ==
    IF Len(ix) > 0
    THEN LET p == Search(ix, version) IN IF p < Len(ix) THEN p ELSE -1
    ELSE -1

\* Migrations.findPos: the 0-based position of version in the index, or -1
findPos(ix, version) ==
    IF Len(ix) > 0
    THEN LET p == Search(ix, version)
         IN  IF p < Len(ix) /\ ix[p + 1] = version THEN p ELSE -1
    ELSE -1

\* First that reads the other end of the slice
FirstFromEnd(ix) ==
    IF Len(ix) = 0 THEN [version |-> 0, ok |-> FALSE]
    ELSE [version |-> ix[Len(ix)], ok |-> TRUE]

\* Migrations.First
First(ix) ==
    IF Len(ix) = 0 THEN [version |-> 0, ok |-> FALSE]
    ELSE [version |-> ix[1], ok |-> TRUE]

\* Prev that forgets to step back: returns the version it was given
PrevNoStep(ix, version) ==
    LET pos == findPos(ix, version)
    IN  IF pos >= 1 /\ Len(ix) > pos - 1
        THEN [version |-> ix[pos + 1], ok |-> TRUE]
        ELSE [version |-> 0, ok |-> FALSE]

\* Migrations.Prev
Prev(ix, version) ==
    LET pos == findPos(ix, version)
    IN  IF pos >= 1 /\ Len(ix) > pos - 1
        THEN [version |-> ix[(pos - 1) + 1], ok |-> TRUE]
        ELSE [version |-> 0, ok |-> FALSE]

\* Next without the bound test on pos + 1: wraps to the first version
NextWrap(ix, version) ==
    LET pos == findPos(ix, version)
    IN  IF pos >= 0 /\ Len(ix) > pos + 1
        THEN [version |-> ix[(pos + 1) + 1], ok |-> TRUE]
        ELSE IF pos >= 0 THEN [version |-> ix[1], ok |-> TRUE]
        ELSE [version |-> 0, ok |-> FALSE]

\* Migrations.Next
Next_(ix, version) ==
    LET pos == findPos(ix, version)
    IN  IF pos >= 0 /\ Len(ix) > pos + 1
        THEN [version |-> ix[(pos + 1) + 1], ok |-> TRUE]
        ELSE [version |-> 0, ok |-> FALSE]

\* a lookup that tests the version alone and returns whichever record it has
LookupAnyDirection(ms, version, dir) ==
    IF version \in DOMAIN ms
    THEN [m |-> ms[version][CHOOSE d \in DOMAIN ms[version] :
                               d = dir \/ dir \notin DOMAIN ms[version]],
          ok |-> TRUE]
    ELSE [m |-> Nil, ok |-> FALSE]

\* the lookup shared by Migrations.Up and Migrations.Down
Lookup(ms, version, dir) ==
    IF version \in DOMAIN ms /\ dir \in DOMAIN ms[version]
    THEN [m |-> ms[version][dir], ok |-> TRUE]
    ELSE [m |-> Nil, ok |-> FALSE]

\* Migrations.Up
UpOf(ms, version) == Lookup(ms, version, Up)

\* Migrations.Down
DownOf(ms, version) == Lookup(ms, version, Down)

\* Append without the duplicate test: a second record replaces the first
AppendOverwrite(ms, ix, m) ==
    IF m = Nil THEN [index |-> ix, migrations |-> ms, ok |-> FALSE]
    ELSE LET ms1 == IF m.Version \notin DOMAIN ms
                    THEN (m.Version :> <<>>) @@ ms ELSE ms
             ms2 == [ms1 EXCEPT ![m.Version] = (m.Direction :> m) @@ @]
         IN  [index |-> buildIndex(ms2), migrations |-> ms2, ok |-> TRUE]

\* Append that adds a new version at the end of the index without sorting
AppendUnsorted(ms, ix, m) ==
    IF m = Nil THEN [index |-> ix, migrations |-> ms, ok |-> FALSE]
    ELSE LET ms1 == IF m.Version \notin DOMAIN ms
                    THEN (m.Version :> <<>>) @@ ms ELSE ms
         IN  IF m.Direction \in DOMAIN ms1[m.Version]
             THEN [index |-> ix, migrations |-> ms1, ok |-> FALSE]
             ELSE LET ms2 == [ms1 EXCEPT ![m.Version] = (m.Direction :> m) @@ @]
                  IN  [index |-> IF m.Version \in DOMAIN ms THEN ix
                                 ELSE ix \o <<m.Version>>,
                       migrations |-> ms2, ok |-> TRUE]

\* Migrations.Append: the index, the map and the result after Append(m)
Append_(ms, ix, m) ==
    IF m = Nil THEN [index |-> ix, migrations |-> ms, ok |-> FALSE]
    ELSE LET ms1 == IF m.Version \notin DOMAIN ms
                    THEN (m.Version :> <<>>) @@ ms ELSE ms
         IN  IF m.Direction \in DOMAIN ms1[m.Version]
             THEN [index |-> ix, migrations |-> ms1, ok |-> FALSE]
             ELSE LET ms2 == [ms1 EXCEPT ![m.Version] = (m.Direction :> m) @@ @]
                  IN  [index |-> buildIndex(ms2), migrations |-> ms2, ok |-> TRUE]

\* the range test with the two comparisons exchanged
InSkipRangeSwapped(v, version, dir) ==
    \/ dir = Up /\ v >= version
    \/ dir = Down /\ v <= version

\* whether MarkSkipMigrations(version, dir) touches indexed version v
InSkipRange(v, version, dir) ==
    \/ dir = Up /\ v <= version
    \/ dir = Down /\ v >= version

\* the loop of MarkSkipMigrations from position idx (1-based) on; writing
\* Status through the nil pointer of a missing dir record panics
RECURSIVE MarkSkipLoop(_, _, _, _, _)
MarkSkipLoop(ms, ix, idx, version, dir) ==
    IF idx > Len(ix) THEN [migrations |-> ms, panicked |-> FALSE]
    ELSE LET v == ix[idx]
         IN  IF InSkipRange(v, version, dir)
             THEN IF dir \in DOMAIN ms[v]
                  THEN MarkSkipLoop([ms EXCEPT ![v][dir].Status = Skipped],
                                    ix, idx + 1, version, dir)
                  ELSE [migrations |-> ms, panicked |-> TRUE]
             ELSE MarkSkipLoop(ms, ix, idx + 1, version, dir)

\* a loop that returns after the first record it had to change
RECURSIVE MarkSkipFirstOnly(_, _, _, _, _)
MarkSkipFirstOnly(ms, ix, idx, version, dir) ==
    IF idx > Len(ix) THEN [migrations |-> ms, panicked |-> FALSE]
    ELSE LET v == ix[idx]
         IN  IF InSkipRange(v, version, dir)
             THEN IF dir \in DOMAIN ms[v]
                  THEN IF ms[v][dir].Status = Skipped
                       THEN MarkSkipFirstOnly(ms, ix, idx + 1, version, dir)
                       ELSE [migrations |-> [ms EXCEPT ![v][dir].Status = Skipped],
                             panicked |-> FALSE]
                  ELSE [migrations |-> ms, panicked |-> TRUE]
             ELSE MarkSkipFirstOnly(ms, ix, idx + 1, version, dir)

\* MarkSkipMigrations with that loop
MarkSkipMigrationsFirstOnly(ms, ix, version, dir) ==
    MarkSkipFirstOnly(ms, ix, 1, version, dir)

\* Migrations.MarkSkipMigrations
MarkSkipMigrations(ms, ix, version, dir) == MarkSkipLoop(ms, ix, 1, version, dir)

\* an assignment that keeps the error text for failed records only
SetStatusErrorIfFailed(ms, version, dir, status, errstr) ==
    IF dir \in DOMAIN ms[version]
    THEN [ms EXCEPT ![version][dir].Status = status,
                    ![version][dir].Error = IF status = Failed THEN errstr ELSE ""]
    ELSE ms

\* the assignment to one record in UpdateStatus, when it exists
SetStatus(ms, version, dir, status, errstr) ==
    IF dir \in DOMAIN ms[version]
    THEN [ms EXCEPT ![version][dir].Status = status, ![version][dir].Error = errstr]
    ELSE ms

\* UpdateStatus that reports on the Up record alone
UpdateStatusUpOnly(ms, version, status, errstr) ==
    IF version \in DOMAIN ms
    THEN SetStatus(ms, version, Up, status, errstr)
    ELSE ms

\* Migrations.UpdateStatus
UpdateStatus(ms, version, status, errstr) ==
    IF version \in DOMAIN ms
    THEN SetStatus(SetStatus(ms, version, Up, status, errstr),
                   version, Down, status, errstr)
    ELSE ms

\* one row of the summary
Row(m) == [Raw |-> m.Raw, Status |-> m.Status, Error |-> m.Error]

\* the loop of PrintSummary from position idx (1-based) on; reading Raw
\* through the nil pointer of a missing dir record panics
RECURSIVE PrintLoop(_, _, _, _, _)
PrintLoop(ms, ix, idx, dir, rows) ==
    IF idx > Len(ix) THEN [rows |-> rows, panicked |-> FALSE]
    ELSE IF dir \in DOMAIN ms[ix[idx]]
         THEN PrintLoop(ms, ix, idx + 1, dir, Append(rows, Row(ms[ix[idx]][dir])))
         ELSE [rows |-> rows, panicked |-> TRUE]

\* Migrations.PrintSummary: the rows written to the tabwriter
PrintSummary(ms, ix, dir) == PrintLoop(ms, ix, 1, dir, <<>>)

\* ------------------------------------------------------------------ Init
\* NewMigrations
Init ==
    /\ index = <<>>
    /\ migrations = <<>>
    /\ ret = [op |-> "NewMigrations"]
    /\ panicked = FALSE
    /\ calls = 0
    /\ store = {}
    /\ registry = {}
    /\ kind = "none"
    /\ drv = "none"

\* --------------------------------------------------------------- actions
\* a panic is not recovered: the process is gone
Running == ~panicked /\ calls < MaxCalls

CallAppend ==
    /\ Running
    /\ \E m \in Migration \cup {Nil} :
          LET r == Append_(migrations, index, m)
          IN  /\ index' = r.index
              /\ migrations' = r.migrations
              /\ ret' = [op |-> "Append", m |-> m, ok |-> r.ok]
    /\ calls' = calls + 1
    /\ UNCHANGED panicked
    /\ UNCHANGED dvars

CallFirst ==
    /\ Running
    /\ ret' = [op |-> "First", res |-> First(index)]
    /\ calls' = calls + 1
    /\ UNCHANGED <<index, migrations, panicked>>
    /\ UNCHANGED dvars

CallPrev ==
    /\ Running
    /\ \E version \in Versions :
          ret' = [op |-> "Prev", version |-> version, res |-> Prev(index, version)]
    /\ calls' = calls + 1
    /\ UNCHANGED <<index, migrations, panicked>>
    /\ UNCHANGED dvars

CallNext ==
    /\ Running
    /\ \E version \in Versions :
          ret' = [op |-> "Next", version |-> version, res |-> Next_(index, version)]
    /\ calls' = calls + 1
    /\ UNCHANGED <<index, migrations, panicked>>
    /\ UNCHANGED dvars

\* an Up that creates the inner map of an absent version, as Append does
CallUpInserting ==
    /\ Running
    /\ \E version \in Versions :
          /\ ret' = [op |-> "Up", version |-> version, res |-> UpOf(migrations, version)]
          /\ migrations' = IF version \in DOMAIN migrations THEN migrations
                           ELSE (version :> <<>>) @@ migrations
    /\ calls' = calls + 1
    /\ UNCHANGED <<index, panicked>>
    /\ UNCHANGED dvars

CallUp ==
    /\ Running
    /\ \E version \in Versions :
          ret' = [op |-> "Up", version |-> version, res |-> UpOf(migrations, version)]
    /\ calls' = calls + 1
    /\ UNCHANGED <<index, migrations, panicked>>
    /\ UNCHANGED dvars

CallDown ==
    /\ Running
    /\ \E version \in Versions :
          ret' = [op |-> "Down", version |-> version, res |-> DownOf(migrations, version)]
    /\ calls' = calls + 1
    /\ UNCHANGED <<index, migrations, panicked>>
    /\ UNCHANGED dvars

CallMarkSkipMigrations ==
    /\ Running
    /\ \E version \in Versions, dir \in Directions :
          LET r == MarkSkipMigrations(migrations, index, version, dir)
          IN  /\ migrations' = r.migrations
              /\ panicked' = r.panicked
              /\ ret' = [op |-> "MarkSkipMigrations", version |-> version, dir |-> dir]
    /\ calls' = calls + 1
    /\ UNCHANGED index
    /\ UNCHANGED dvars

CallUpdateStatus ==
    /\ Running
    /\ \E version \in Versions, status \in Statuses, errstr \in Errors :
          /\ migrations' = UpdateStatus(migrations, version, status, errstr)
          /\ ret' = [op |-> "UpdateStatus", version |-> version,
                      status |-> status, errstr |-> errstr]
    /\ calls' = calls + 1
    /\ UNCHANGED <<index, panicked>>
    /\ UNCHANGED dvars

CallPrintSummary ==
    /\ Running
    /\ \E dir \in Directions :
          LET r == PrintSummary(migrations, index, dir)
          IN  /\ panicked' = r.panicked
              /\ ret' = [op |-> "PrintSummary", dir |-> dir, rows |-> r.rows,
                          flushed |-> ~r.panicked]
    /\ calls' = calls + 1
    /\ UNCHANGED <<index, migrations>>
    /\ UNCHANGED dvars

Next ==
    \/ CallAppend
    \/ CallFirst
    \/ CallPrev
    \/ CallNext
    \/ CallUp
    \/ CallDown
    \/ CallMarkSkipMigrations
    \/ CallUpdateStatus
    \/ CallPrintSummary

Spec == Init /\ [][Next]_vars

\* --------------------------------------------------------------- drivers
\* the names a backing store may hold
Names == {"0_init.up.sql", "0_init.down.sql", "0_base.up.sql", "1_fn.up.go",
          "README.md"}

\* the basenames RegisterFuncMigration may have registered
RegistryKeys == {"1_fn.up.go"}

Kinds == {"iofs", "gcs"}

\* the path given to iofs.New, and the prefix of the gcs driver
Root == "migrations"

\* source.DefaultParse: {version}_{identifier}.{up|down}.{ext}; Raw is the name
DefaultParse(name) ==
    LET rec(v, id, d) ==
            [ok |-> TRUE,
             m |-> [Version |-> v, Identifier |-> id, Direction |-> d,
                    Raw |-> <<name>>, Status |-> Pending, Error |-> ""]]
    IN  CASE name = "0_init.up.sql" -> rec(0, "init", Up)
          [] name = "0_init.down.sql" -> rec(0, "init", Down)
          [] name = "0_base.up.sql" -> rec(0, "base", Up)
          [] name = "1_fn.up.go" -> rec(1, "fn", Up)
          [] OTHER -> [ok |-> FALSE, m |-> Nil]

\* filepath.Base of a path given by its elements
Base(path) == path[Len(path)]

\* the orders in which a store may enumerate its names
RECURSIVE Orders(_)
Orders(S) ==
    IF S = {} THEN {<<>>}
    ELSE UNION {{<<x>> \o o : o \in Orders(S \ {x})} : x \in S}

\* error values
NoErr == [type |-> "nil"]
ErrNotExist == [type |-> "ErrNotExist"]
ErrPermission == [type |-> "ErrPermission"]
ErrObjectNotExist == [type |-> "storage.ErrObjectNotExist"]
ErrIO == [type |-> "io"]
PathError(op, path, err) == [type |-> "PathError", Op |-> op, Path |-> path, Err |-> err]
WrapError(text, err) == [type |-> "wrapError", Text |-> text, Err |-> err]
ErrDuplicateMigration(m) == [type |-> "ErrDuplicateMigration", Migration |-> m]
\* a call that did not return: nil pointer dereference
Panic == [type |-> "panic"]
ErrUnableToParse(name) == [type |-> "errorString", Text |-> <<"unable to parse file", name>>]

\* an unopened index
NoIndex == [index |-> <<>>, migrations |-> <<>>]

\* the callback of fs.WalkDir in Init on the k-th entry and the ones after it;
\* e.Info() fails on entry failAt
RECURSIVE iofsWalk(_, _, _, _, _)
iofsWalk(order, k, failAt, ms, ix) ==
    IF k > Len(order) THEN [err |-> NoErr, index |-> ix, migrations |-> ms]
    ELSE LET p == DefaultParse(order[k])
         IN  IF ~p.ok THEN iofsWalk(order, k + 1, failAt, ms, ix)
             ELSE IF failAt = k THEN [err |-> ErrIO, index |-> ix, migrations |-> ms]
             ELSE LET m == [p.m EXCEPT !.Raw = <<Root, order[k]>>]
                      r == Append_(ms, ix, m)
                  IN  IF ~r.ok
                      THEN [err |-> ErrDuplicateMigration(m), index |-> ix,
                            migrations |-> ms]
                      ELSE iofsWalk(order, k + 1, failAt, r.migrations, r.index)

\* PartialDriver.Init: d.migrations is set only when the walk returned no error.
\* When fs.Stat of the root fails, WalkDir calls the callback with a nil entry
\* and e.IsDir() dereferences it.
iofsInit(order, failAt, rootOk) ==
    IF ~rootOk
    THEN [err |-> Panic, index |-> NoIndex.index, migrations |-> NoIndex.migrations]
    ELSE LET w == iofsWalk(order, 1, failAt, <<>>, <<>>)
         IN  IF w.err # NoErr
             THEN [err |-> w.err, index |-> NoIndex.index,
                   migrations |-> NoIndex.migrations]
             ELSE w

\* iofs.New: no driver when Init fails
iofsNew(order, failAt, rootOk) ==
    LET i == iofsInit(order, failAt, rootOk)
    IN  IF i.err = Panic THEN i
        ELSE IF i.err # NoErr
        THEN [i EXCEPT !.err = WrapError("failed to init driver with path", i.err)]
        ELSE i

\* gcs.loadMigrations from the k-th iter.Next() on; that call fails for
\* k = failAt
RECURSIVE gcsLoadMigrations(_, _, _, _, _)
gcsLoadMigrations(order, k, failAt, ms, ix) ==
    IF failAt = k THEN [err |-> ErrIO, index |-> ix, migrations |-> ms]
    ELSE IF k > Len(order) THEN [err |-> NoErr, index |-> ix, migrations |-> ms]
    ELSE LET p == DefaultParse(order[k])
         IN  IF ~p.ok THEN gcsLoadMigrations(order, k + 1, failAt, ms, ix)
             ELSE LET r == Append_(ms, ix, p.m)
                  IN  IF ~r.ok
                      THEN [err |-> ErrUnableToParse(order[k]), index |-> ix,
                            migrations |-> ms]
                      ELSE gcsLoadMigrations(order, k + 1, failAt, r.migrations, r.index)

\* gcs.Open: no driver when loadMigrations fails
gcsOpenDriver(order, failAt) ==
    LET l == gcsLoadMigrations(order, 1, failAt, <<>>, <<>>)
    IN  IF l.err # NoErr
        THEN [err |-> l.err, index |-> NoIndex.index, migrations |-> NoIndex.migrations]
        ELSE l

\* discovery by the driver of kind k
Discover(k, order, failAt, rootOk) ==
    IF k = "iofs" THEN iofsNew(order, failAt, rootOk) ELSE gcsOpenDriver(order, failAt)

\* whether fs.Stat of the root may succeed or fail: a missing root has no names
RootStats == IF kind = "iofs" /\ store = {} THEN BOOLEAN ELSE {TRUE}

\* what fsys.Open(path) may return: a file, or an error
FsOpenOutcomes(path) ==
    {[err |-> NoErr],
     [err |-> PathError("open", path, ErrNotExist)],
     [err |-> PathError("open", path, ErrPermission)],
     [err |-> ErrIO]}

\* what Object(path).NewReader may return: a reader, or an error
GcsReaderOutcomes == {[err |-> NoErr], [err |-> ErrObjectNotExist], [err |-> ErrIO]}

\* PartialDriver.open: an error that is no *fs.PathError is wrapped in one
iofsOpen(path, outcome) ==
    IF outcome.err = NoErr THEN [f |-> [stream |-> path], err |-> NoErr]
    ELSE IF outcome.err.type # "PathError"
         THEN [f |-> Nil, err |-> PathError("open", path, outcome.err)]
         ELSE [f |-> Nil, err |-> outcome.err]

\* the body of ReadUp and ReadDown of the iofs driver after the lookup l
iofsRead(l, reg, op, outcome) ==
    IF l.ok
    THEN LET basename == Base(l.m.Raw)
         IN  IF basename \in reg
             THEN [r |-> Nil, identifier |-> l.m.Identifier, location |-> l.m.Raw,
                   fn |-> [fn |-> basename], err |-> NoErr]
             ELSE LET body == iofsOpen(l.m.Raw, outcome)
                  IN  IF body.err # NoErr
                      THEN [r |-> Nil, identifier |-> "", location |-> <<>>,
                            fn |-> Nil, err |-> body.err]
                      ELSE [r |-> body.f, identifier |-> l.m.Identifier,
                            location |-> l.m.Raw, fn |-> Nil, err |-> NoErr]
    ELSE [r |-> Nil, identifier |-> "", location |-> <<>>, fn |-> Nil,
          err |-> PathError(op, Root, ErrNotExist)]

\* PartialDriver.ReadUp
iofsReadUp(ms, reg, version, outcome) ==
    iofsRead(UpOf(ms, version), reg, <<"read up for version", version>>, outcome)

\* PartialDriver.ReadDown
iofsReadDown(ms, reg, version, outcome) ==
    iofsRead(DownOf(ms, version), reg, <<"read down for version", version>>, outcome)

\* gcs.open: the registry is not consulted
gcsOpen(m, outcome) ==
    LET objectPath == <<Root>> \o m.Raw
    IN  IF outcome.err # NoErr
        THEN [r |-> Nil, identifier |-> "", location |-> <<>>, fn |-> Nil,
              err |-> outcome.err]
        ELSE [r |-> [stream |-> objectPath], identifier |-> m.Identifier,
              location |-> m.Raw, fn |-> Nil, err |-> NoErr]

\* the body of ReadUp and ReadDown of the gcs driver after the lookup l
gcsRead(l, outcome) ==
    IF l.ok THEN gcsOpen(l.m, outcome)
    ELSE [r |-> Nil, identifier |-> "", location |-> <<>>, fn |-> Nil,
          err |-> ErrNotExist]

\* gcs.ReadUp
gcsReadUp(ms, version, outcome) == gcsRead(UpOf(ms, version), outcome)

\* gcs.ReadDown
gcsReadDown(ms, version, outcome) == gcsRead(DownOf(ms, version), outcome)

\* First, Prev and Next of a driver: the result res of the index, or the
\* driver's not-found error
Forward(k, res, op) ==
    IF res.ok THEN [version |-> res.version, err |-> NoErr]
    ELSE [version |-> 0,
          err |-> IF k = "iofs" THEN PathError(op, Root, ErrNotExist) ELSE ErrNotExist]

\* the state before Open or New: a store, a registry and a driver kind
InitDriver ==
    /\ index = <<>>
    /\ migrations = <<>>
    /\ ret = [op |-> "NewMigrations"]
    /\ panicked = FALSE
    /\ calls = 0
    /\ store \in SUBSET Names
    /\ registry \in SUBSET RegistryKeys
    /\ kind \in Kinds
    /\ drv = "new"

\* a call on an opened driver
Opened == Running /\ drv = "open"

\* the outcomes the medium may give the driver for the record of the lookup
\* l; it is asked only for an indexed record that the iofs driver did not find
\* in the registry
Outcomes(l) ==
    IF ~l.ok THEN {[err |-> NoErr]}
    ELSE IF kind = "iofs"
         THEN IF Base(l.m.Raw) \in registry THEN {[err |-> NoErr]}
              ELSE FsOpenOutcomes(l.m.Raw)
         ELSE GcsReaderOutcomes

DriverOpen ==
    /\ Running
    /\ drv = "new"
    /\ \E order \in Orders(store) :
          \E failAt \in 0..(Len(order) + 1), rootOk \in RootStats :
             LET r == Discover(kind, order, failAt, rootOk)
             IN  /\ index' = r.index
                 /\ migrations' = r.migrations
                 /\ drv' = IF r.err = NoErr THEN "open" ELSE "failed"
                 /\ panicked' = (r.err = Panic)
                 /\ ret' = [op |-> "Open", err |-> r.err]
    /\ calls' = calls + 1
    /\ UNCHANGED <<store, registry, kind>>

DriverFirst ==
    /\ Opened
    /\ ret' = [op |-> "DriverFirst", res |-> Forward(kind, First(index), "first")]
    /\ calls' = calls + 1
    /\ UNCHANGED <<index, migrations, panicked, dvars>>

DriverPrev ==
    /\ Opened
    /\ \E version \in Versions :
          ret' = [op |-> "DriverPrev", version |-> version,
                  res |-> Forward(kind, Prev(index, version),
                                  <<"prev for version", version>>)]
    /\ calls' = calls + 1
    /\ UNCHANGED <<index, migrations, panicked, dvars>>

DriverNext ==
    /\ Opened
    /\ \E version \in Versions :
          ret' = [op |-> "DriverNext", version |-> version,
                  res |-> Forward(kind, Next_(index, version),
                                  <<"next for version", version>>)]
    /\ calls' = calls + 1
    /\ UNCHANGED <<index, migrations, panicked, dvars>>

DriverReadUp ==
    /\ Opened
    /\ \E version \in Versions :
          \E outcome \in Outcomes(UpOf(migrations, version)) :
             ret' = [op |-> "ReadUp", version |-> version, dir |-> Up,
                     res |-> IF kind = "iofs"
                             THEN iofsReadUp(migrations, registry, version, outcome)
                             ELSE gcsReadUp(migrations, version, outcome)]
    /\ calls' = calls + 1
    /\ UNCHANGED <<index, migrations, panicked, dvars>>

DriverReadDown ==
    /\ Opened
    /\ \E version \in Versions :
          \E outcome \in Outcomes(DownOf(migrations, version)) :
             ret' = [op |-> "ReadDown", version |-> version, dir |-> Down,
                     res |-> IF kind = "iofs"
                             THEN iofsReadDown(migrations, registry, version, outcome)
                             ELSE gcsReadDown(migrations, version, outcome)]
    /\ calls' = calls + 1
    /\ UNCHANGED <<index, migrations, panicked, dvars>>

NextDriver ==
    \/ DriverOpen
    \/ DriverFirst
    \/ DriverPrev
    \/ DriverNext
    \/ DriverReadUp
    \/ DriverReadDown
    \/ CallFirst
    \/ CallPrev
    \/ CallNext
    \/ CallUp
    \/ CallDown

SpecDriver == InitDriver /\ [][NextDriver]_vars

\* ---------------------------------------------------------------- claims
\* a step that is a call of op (every call advances calls)
Called(op) == calls' = calls + 1 /\ ret'.op = op

\* the indexed versions, read from the map
Keys == DOMAIN migrations

\* whether a record is indexed for (v, d)
Has(v, d) == v \in DOMAIN migrations /\ d \in DOMAIN migrations[v]

NotFound == [version |-> 0, ok |-> FALSE]

\* C1: in every reachable state the sorted version sequence is strictly
\* ascending (so it repeats no element) and its elements are exactly the keys
\* of the version-to-records mapping
C1_IndexIsSortedKeys ==
    /\ \A a, b \in 1..Len(index) : a < b => index[a] < index[b]
    /\ {index[k] : k \in 1..Len(index)} = DOMAIN migrations

\* C1 witness: a successful Append put a third version in front of two
\* larger ones that were indexed before it
C1_Witness ==
    /\ ret.op = "Append" /\ ret.ok
    /\ Len(index) = 3
    /\ ret.m.Version = index[1]
    /\ ~Has(ret.m.Version, IF ret.m.Direction = Up THEN Down ELSE Up)

\* C2: an Append of nil, or of a record whose (version, direction) is already
\* indexed, returns false and changes neither the version sequence nor the
\* map: the same keys, and every record (the one first appended for the pair
\* included) with the fields, status and error it had
C2_RejectedAppendChangesNothing ==
    [][(Called("Append") /\
          (\/ ret'.m = Nil
           \/ ret'.m # Nil /\ Has(ret'.m.Version, ret'.m.Direction)))
       => (/\ ret'.ok = FALSE
           /\ index' = index
           /\ migrations' = migrations)]_vars

\* C2 witness: a rejected Append of a record that differs from the one the
\* index holds for its pair, whose status was updated before
C2_Witness ==
    /\ ret.op = "Append" /\ ~ret.ok /\ ret.m # Nil
    /\ Has(ret.m.Version, ret.m.Direction)
    /\ migrations[ret.m.Version][ret.m.Direction].Raw # ret.m.Raw
    /\ migrations[ret.m.Version][ret.m.Direction].Status = Done

\* C3: First returns (m, true) with m the minimum version of the records
\* the index holds, and (0, false) on an index that holds none
C3_FirstIsMinimum ==
    ret.op = "First" =>
        IF Keys = {} THEN ret.res = NotFound
        ELSE /\ ret.res.ok
             /\ ret.res.version \in Keys
             /\ \A v \in Keys : ret.res.version <= v

\* C3 witness: First on an index of three versions
C3_Witness ==
    /\ ret.op = "First" /\ ret.res.ok
    /\ Cardinality(Keys) = 3

\* C4: Next of an indexed version v returns the smallest indexed version
\* greater than v when there is one, and (0, false) when v is the maximum
C4_NextIsSuccessor ==
    (ret.op = "Next" /\ ret.version \in Keys) =>
        LET greater == {w \in Keys : w > ret.version}
        IN  IF greater = {} THEN ret.res = NotFound
            ELSE /\ ret.res.ok
                 /\ ret.res.version \in greater
                 /\ \A w \in greater : ret.res.version <= w

\* C4 witness: Next of the middle one of three indexed versions
C4_Witness ==
    /\ ret.op = "Next" /\ ret.res.ok
    /\ Cardinality(Keys) = 3
    /\ ret.version = index[2]

\* C5: Prev and Next of a version that is not indexed return (0, false),
\* wherever the version lies relative to the indexed ones
C5_UnindexedHasNoNeighbour ==
    (ret.op \in {"Prev", "Next"} /\ ret.version \notin Keys) => ret.res = NotFound

\* C5 witness: Prev or Next of an unindexed version that lies strictly
\* between two indexed ones
C5_Witness ==
    /\ ret.op \in {"Prev", "Next"}
    /\ ret.version \notin Keys
    /\ \E a, b \in Keys : a < ret.version /\ ret.version < b

\* whether MarkSkipMigrations(version, dir) is to touch the dir record of v
Covers(version, dir, v, d) ==
    /\ d = dir
    /\ \/ dir = Up /\ v <= version
       \/ dir = Down /\ v >= version

\* the set of (version, direction) pairs is the same before and after a step
SameKeys ==
    /\ DOMAIN migrations' = DOMAIN migrations
    /\ \A v \in DOMAIN migrations : DOMAIN migrations'[v] = DOMAIN migrations[v]

\* C6: after MarkSkipMigrations(v, Up) the Up record of every indexed
\* version <= v is Skipped and the Up record of every version > v is as it
\* was; after MarkSkipMigrations(v, Down) the same with >= v and < v; the
\* records of the other direction, every error text, every other field and
\* the version sequence are as they were
C6_MarkSkipPostcondition ==
    [][Called("MarkSkipMigrations")
       => (/\ index' = index
           /\ SameKeys
           /\ \A v \in DOMAIN migrations : \A d \in DOMAIN migrations[v] :
                 migrations'[v][d] =
                    IF Covers(ret'.version, ret'.dir, v, d)
                    THEN [migrations[v][d] EXCEPT !.Status = Skipped]
                    ELSE migrations[v][d])]_vars

\* C7: MarkSkipMigrations never fails: the call returns normally, also when a
\* version in its range has a record for the other direction only, and every
\* record of its direction in the range is then Skipped
C7_MarkSkipNeverFails ==
    ret.op = "MarkSkipMigrations" =>
        /\ ~panicked
        /\ \A v \in Keys :
              (Has(v, ret.dir) /\ Covers(ret.version, ret.dir, v, ret.dir))
                  => migrations[v][ret.dir].Status = Skipped

\* C8: UpdateStatus(v, s, e) sets status s and error e on every record of
\* version v, leaves every record of every other version, the set of keys and
\* the version sequence as they were, and changes nothing when v is not
\* indexed
C8_UpdateStatusFrame ==
    [][Called("UpdateStatus")
       => (/\ index' = index
           /\ SameKeys
           /\ \A v \in DOMAIN migrations : \A d \in DOMAIN migrations[v] :
                 migrations'[v][d] =
                    IF v = ret'.version
                    THEN [migrations[v][d] EXCEPT !.Status = ret'.status,
                                                  !.Error = ret'.errstr]
                    ELSE migrations[v][d])]_vars

\* C8 witness: UpdateStatus(v, Failed, "boom") on a version with both records,
\* next to another version whose record is still pending
C8_Witness ==
    /\ ret.op = "UpdateStatus" /\ ret.status = Failed /\ ret.errstr = "boom"
    /\ Has(ret.version, Up) /\ Has(ret.version, Down)
    /\ migrations[ret.version][Up].Status = Failed
    /\ migrations[ret.version][Down].Error = "boom"
    /\ \E w \in Keys \ {ret.version} : \E d \in DOMAIN migrations[w] :
          migrations[w][d].Status = Pending

\* a record indexed before and after a step
Kept(v, d) ==
    /\ v \in DOMAIN migrations /\ d \in DOMAIN migrations[v]
    /\ v \in DOMAIN migrations' /\ d \in DOMAIN migrations'[v]

\* C9 as stated: a record whose status is Done, Failed or Skipped keeps that
\* status in every step (so the only changes of status start from Pending)
C9_TerminalStatusesStay ==
    [][\A v \in Versions, d \in Directions :
          (Kept(v, d) /\ migrations[v][d].Status \in {Done, Failed, Skipped})
              => migrations'[v][d].Status = migrations[v][d].Status]_vars

\* C9 as amended: no status is terminal in the index, and a record's status
\* changes only in an UpdateStatus call for its version, to the status
\* passed, or in a MarkSkipMigrations call of its direction whose range
\* holds its version, to Skipped
C9_StatusChangesOnlyByCalls ==
    [][\A v \in Versions, d \in Directions :
          (Kept(v, d) /\ migrations'[v][d].Status # migrations[v][d].Status)
              => \/ /\ Called("UpdateStatus")
                    /\ ret'.version = v
                    /\ migrations'[v][d].Status = ret'.status
                 \/ /\ Called("MarkSkipMigrations")
                    /\ Covers(ret'.version, ret'.dir, v, d)
                    /\ migrations'[v][d].Status = Skipped]_vars

\* C9 witness: UpdateStatus(v, Done, "boom") wrote both records of v, and a
\* later MarkSkipMigrations(_, Up) took the Up record from Done to Skipped
C9_Witness ==
    /\ ret.op = "MarkSkipMigrations" /\ ret.dir = Up
    /\ ~panicked
    /\ \E v \in Keys :
          /\ Has(v, Up) /\ Has(v, Down)
          /\ migrations[v][Up].Status = Skipped /\ migrations[v][Up].Error = "boom"
          /\ migrations[v][Down].Status = Done /\ migrations[v][Down].Error = "boom"

\* C10: PrintSummary(dir) never fails and changes nothing in the index: it
\* returns normally, also when an indexed version has no dir record, and
\* writes one row per indexed version, in the order of the version sequence,
\* each the raw location, status and error of the dir record
C10_PrintSummaryNeverFails ==
    [][Called("PrintSummary")
       => (/\ index' = index
           /\ migrations' = migrations
           /\ ~panicked'
           /\ ret'.flushed
           /\ Len(ret'.rows) = Len(index)
           /\ \A k \in 1..Len(index) :
                 Has(index[k], ret'.dir)
                    => ret'.rows[k] = [Raw |-> migrations[index[k]][ret'.dir].Raw,
                                       Status |-> migrations[index[k]][ret'.dir].Status,
                                       Error |-> migrations[index[k]][ret'.dir].Error])]_vars

\* C15: Up(v) returns (r, true) exactly when a record is indexed for (v, Up),
\* and r is that record with the status and error it has now; otherwise
\* (nil, false), also when v has a Down record only; the same for Down(v)
C15_LookupIsExact ==
    ret.op \in {"Up", "Down"} =>
        LET d == IF ret.op = "Up" THEN Up ELSE Down
        IN  IF Has(ret.version, d)
            THEN /\ ret.res.ok
                 /\ ret.res.m = migrations[ret.version][d]
                 /\ ret.res.m.Version = ret.version
                 /\ ret.res.m.Direction = d
            ELSE ret.res = [m |-> Nil, ok |-> FALSE]

\* C15 witness: Up(v) not found for a version that has a Down record whose
\* status was updated before
C15_Witness ==
    /\ ret.op = "Up" /\ ~ret.res.ok
    /\ Has(ret.version, Down) /\ ~Has(ret.version, Up)
    /\ migrations[ret.version][Down].Status = Done

\* C16: Prev of an indexed version v returns the largest indexed version
\* smaller than v when there is one and (0, false) when v is the minimum;
\* Prev(Next(v)) = v and Next(Prev(v)) = v whenever the inner call is found
C16_PrevIsPredecessor ==
    /\ (ret.op = "Prev" /\ ret.version \in Keys) =>
          LET smaller == {u \in Keys : u < ret.version}
          IN  IF smaller = {} THEN ret.res = NotFound
              ELSE /\ ret.res.ok
                   /\ ret.res.version \in smaller
                   /\ \A u \in smaller : u <= ret.res.version
    /\ \A v \in Keys :
          /\ Next_(index, v).ok
                => Prev(index, Next_(index, v).version) = [version |-> v, ok |-> TRUE]
          /\ Prev(index, v).ok
                => Next_(index, Prev(index, v).version) = [version |-> v, ok |-> TRUE]

\* C16 witness: Prev of the largest of three indexed versions
C16_Witness ==
    /\ ret.op = "Prev" /\ ret.res.ok
    /\ Cardinality(Keys) = 3
    /\ ret.version = index[3]

\* every indexed version has a record for dir
AllHave(dir) == \A v \in Keys : dir \in DOMAIN migrations[v]

\* C17: on an index in which every version has a dir record, a second
\* MarkSkipMigrations(v, dir) right after a first one with the same arguments
\* returns normally and changes nothing
C17_MarkSkipIdempotent ==
    [][(/\ Called("MarkSkipMigrations")
        /\ ret.op = "MarkSkipMigrations"
        /\ ret'.version = ret.version /\ ret'.dir = ret.dir
        /\ AllHave(ret.dir))
       => (/\ migrations' = migrations
           /\ index' = index
           /\ ~panicked')]_vars

\* C17 witness: MarkSkipMigrations returned on an index of two versions that
\* both have the dir record, both in its range and now Skipped
C17_Witness ==
    /\ ret.op = "MarkSkipMigrations" /\ ~panicked
    /\ Cardinality(Keys) = 2 /\ AllHave(ret.dir)
    /\ \A v \in Keys :
          /\ Covers(ret.version, ret.dir, v, ret.dir)
          /\ migrations[v][ret.dir].Status = Skipped

\* C18 as stated: every indexed record whose status is not Failed has an
\* empty error text
C18_ErrorOnlyWhenFailed ==
    \A v \in Keys : \A d \in DOMAIN migrations[v] :
        migrations[v][d].Status # Failed => migrations[v][d].Error = ""

\* C18 as amended: the error text of a record is the text of the last
\* UpdateStatus call for its version, whatever status that call passed, and
\* no other call changes it (MarkSkipMigrations keeps it)
C18_ErrorIsLastUpdate ==
    [][\A v \in Versions, d \in Directions :
          Kept(v, d) =>
             migrations'[v][d].Error =
                IF Called("UpdateStatus") /\ ret'.version = v
                THEN ret'.errstr
                ELSE migrations[v][d].Error]_vars

\* C18 witness: UpdateStatus(v, Done, "boom") left a Done record with a
\* non-empty error
C18_Witness ==
    /\ ret.op = "UpdateStatus" /\ ret.status = Done /\ ret.errstr = "boom"
    /\ \E d \in Directions :
          /\ Has(ret.version, d)
          /\ migrations[ret.version][d].Status = Done
          /\ migrations[ret.version][d].Error = "boom"

\* the versions a walk with Next visits after v, at most n of them
RECURSIVE WalkNext(_, _, _)
WalkNext(ix, v, n) ==
    IF n = 0 THEN <<>>
    ELSE LET r == Next_(ix, v)
         IN  IF r.ok THEN <<r.version>> \o WalkNext(ix, r.version, n - 1) ELSE <<>>

\* the versions a walk with Prev visits after v, at most n of them
RECURSIVE WalkPrev(_, _, _)
WalkPrev(ix, v, n) ==
    IF n = 0 THEN <<>>
    ELSE LET r == Prev(ix, v)
         IN  IF r.ok THEN <<r.version>> \o WalkPrev(ix, r.version, n - 1) ELSE <<>>

\* the walk from First with Next; one step more than the index is long is
\* allowed, so a walk that does not stop after the maximum shows
WalkUp(ix) ==
    IF First(ix).ok
    THEN <<First(ix).version>> \o WalkNext(ix, First(ix).version, Len(ix) + 1)
    ELSE <<>>

\* the walk from the last version with Prev
WalkDown(ix) ==
    IF Len(ix) > 0
    THEN <<ix[Len(ix)]>> \o WalkPrev(ix, ix[Len(ix)], Len(ix) + 1)
    ELSE <<>>

Reverse(s) == [k \in 1..Len(s) |-> s[Len(s) + 1 - k]]

\* C19: the walk from First() with Next visits the indexed versions, each
\* once, in ascending order, and ends with not found right after the
\* maximum, after as many found results as there are versions; the walk
\* from the maximum with Prev visits them in descending order
C19_WalkVisitsAllInOrder ==
    /\ WalkUp(index) = index
    /\ WalkDown(index) = Reverse(index)
    /\ \A a, b \in 1..Len(index) : a < b => index[a] < index[b]
    /\ {index[k] : k \in 1..Len(index)} = Keys
    /\ Len(index) > 0 => Next_(index, index[Len(index)]) = NotFound

\* C19 witness: the last step of the walk over three versions, Next of the
\* maximum, returned not found
C19_Witness ==
    /\ ret.op = "Next" /\ ~ret.res.ok
    /\ Len(index) = 3
    /\ ret.version = index[3]
    /\ WalkUp(index) = index

\* ------------------------------------------------------- driver claims
\* the record the driver indexed for the last read, if any
ReadRecord == Lookup(migrations, ret.version, ret.dir)

IsRead == ret.op \in {"ReadUp", "ReadDown"}

\* C11: a successful ReadUp/ReadDown on an indexed record, with either
\* driver, returns the registered function and no stream when the basename of
\* the record's raw location is a key of the registry, and a stream and no
\* function otherwise, together with the record's identifier and raw location.
C11_ReadReturnsStreamOrFunction ==
    (IsRead /\ ReadRecord.ok /\ ret.res.err = NoErr) =>
        /\ ret.res.identifier = ReadRecord.m.Identifier
        /\ ret.res.location = ReadRecord.m.Raw
        /\ IF Base(ReadRecord.m.Raw) \in registry
           THEN ret.res.fn = [fn |-> Base(ReadRecord.m.Raw)] /\ ret.res.r = Nil
           ELSE ret.res.fn = Nil /\ ret.res.r # Nil

\* the names of the store that parse
Parsed == {n \in store : DefaultParse(n).ok}

\* two names of the store parse to the same (version, direction)
Collide ==
    \E a, b \in Parsed :
        /\ a # b
        /\ DefaultParse(a).m.Version = DefaultParse(b).m.Version
        /\ DefaultParse(a).m.Direction = DefaultParse(b).m.Direction

\* the index holds exactly the records parsed from the names of the store
HoldsParsed ==
    /\ \A n \in Parsed :
          LET m == DefaultParse(n).m
          IN  /\ Has(m.Version, m.Direction)
              /\ migrations[m.Version][m.Direction] =
                    [m EXCEPT !.Raw = migrations[m.Version][m.Direction].Raw]
              /\ Base(migrations[m.Version][m.Direction].Raw) = n
    /\ \A v \in Keys : \A d \in DOMAIN migrations[v] :
          \E n \in Parsed : DefaultParse(n).m.Version = v
                            /\ DefaultParse(n).m.Direction = d
    /\ index = SortAsc(Keys)

\* no driver was returned and no index was built
NoDriver == drv = "failed" /\ index = <<>> /\ migrations = <<>>

\* C12: after discovery, whatever the enumeration order: unparsable names
\* are skipped; when two names collide on (version, direction) discovery ends
\* with an error and no driver or index; otherwise discovery succeeds and the
\* index holds exactly the parsed records.
C12_DiscoveryPolicy ==
    ret.op = "Open" =>
        IF Collide
        THEN ret.err \notin {NoErr, Panic} /\ NoDriver
        ELSE ret.err = NoErr /\ drv = "open" /\ HoldsParsed

\* errors.Is(err, fs.ErrNotExist), through the errors err wraps
RECURSIVE IsNotExist(_)
IsNotExist(err) ==
    \/ err.type = "ErrNotExist"
    \/ err.type \in {"PathError", "wrapError"} /\ IsNotExist(err.Err)

\* errors.Is(err, fs.ErrPermission)
RECURSIVE IsPermission(_)
IsPermission(err) ==
    \/ err.type = "ErrPermission"
    \/ err.type \in {"PathError", "wrapError"} /\ IsPermission(err.Err)

\* the classification tests of a caller
Tests == {"not-exist", "permission"}

Satisfies(test, err) ==
    IF test = "not-exist" THEN IsNotExist(err) ELSE IsPermission(err)

\* the error of the driver's ReadUp/ReadDown when no record is indexed
MissingError ==
    IF kind = "iofs"
    THEN PathError(<<IF ret.dir = Up THEN "read up for version"
                     ELSE "read down for version", ret.version>>, Root, ErrNotExist)
    ELSE ErrNotExist

\* C13: no classification test is satisfied both by the error of a read
\* of an indexed record whose medium fails and by the error of a read of a
\* record that is not indexed.
C13_MissingIsNotReadFailure ==
    (IsRead /\ ReadRecord.ok /\ ret.res.err # NoErr) =>
        \A test \in Tests :
            ~(Satisfies(test, ret.res.err) /\ Satisfies(test, MissingError))

\* the calls that navigate or look up, on the Index and through a driver
Lookups == {"First", "Prev", "Next", "Up", "Down",
            "DriverFirst", "DriverPrev", "DriverNext", "ReadUp", "ReadDown"}

\* C14: First, Prev, Next, Up and Down, on the Index and as forwarded by
\* a driver, leave the version sequence, the keys and every record as they
\* were, for indexed and unindexed versions alike.
C14_LookupsChangeNothing ==
    [][(\E op \in Lookups : Called(op)) =>
          /\ index' = index
          /\ DOMAIN migrations' = DOMAIN migrations
          /\ migrations' = migrations]_vars

C14_Witness ==
    /\ drv = "open"
    /\ Keys # {}
    /\ ret.op \in {"Up", "ReadUp", "DriverNext", "Prev"}
    /\ ret.version \notin Keys

\* C20: a driver opened on a store has the index, the records and the
\* answers of First, Prev, Next, Up and Down that every other enumeration
\* order of the same names gives.
C20_DiscoveryOrderIndependent ==
    (ret.op = "Open" /\ drv = "open") =>
        \A o \in Orders(store) :
            LET d == Discover(kind, o, 0, TRUE)
            IN  /\ d.err = NoErr
                /\ d.index = index
                /\ d.migrations = migrations
                /\ First(d.index) = First(index)
                /\ \A v \in Versions :
                      /\ Prev(d.index, v) = Prev(index, v)
                      /\ Next_(d.index, v) = Next_(index, v)
                      /\ UpOf(d.migrations, v) = UpOf(migrations, v)
                      /\ DownOf(d.migrations, v) = DownOf(migrations, v)

C20_Witness ==
    /\ ret.op = "Open"
    /\ drv = "open"
    /\ Len(index) = 2
    /\ Cardinality(store) >= 4

====
